---- MODULE Spec2Model ----
(***************************************************************************)
(* Model of package surveillance (src/surveillance/sentry.go): the Sentry  *)
(* wrapper created by InitSentry, its two reporting entry points Capture   *)
(* and CaptureWithContext, the HTTP decorators and the gRPC interceptors,  *)
(* called by concurrent goroutines.                                        *)
(*                                                                         *)
(* The sentry-go SDK is modelled by the primitives the wrapper calls: a    *)
(* hub is a stack of scopes, WithScope is PushScope / f(scope) / PopScope  *)
(* on the process-wide hub, CaptureException on a hub transmits an event   *)
(* carrying the data of the scope on top of THAT hub's stack. Every SDK    *)
(* invocation takes the lock of the hub or scope it works on and releases  *)
(* it before it returns, and is taken to be atomic: a step of a goroutine  *)
(* is ONE SDK invocation together with the goroutine's own code up to its  *)
(* next SDK invocation. Goroutines interleave between any two steps.       *)
(***************************************************************************)
EXTENDS Naturals, Sequences, FiniteSets

VARIABLES
    env,        \* what InitSentry found: [dsn, initErr]
    wrapper,    \* the *Sentry built by InitSentry: [client, handler] non-nil flags
    reportOn,   \* opts.ReportOn: the set of error values the policy reports
    stacks,     \* stacks[h]: scope stack of hub h; hub 1 is sentry.CurrentHub()
    calls       \* calls[c]: the call goroutine c makes, its position and outcome

vars == <<env, wrapper, reportOn, stacks, calls>>

(***************************************************************************)
(* Bounds.                                                                 *)
(***************************************************************************)
MaxCalls == 2       \* goroutines, each making one entry-point call

(***************************************************************************)
(* Values.                                                                 *)
(***************************************************************************)
Nil == "nil"                \* a nil error / nil interface value
NoPanic == "no panic"       \* the call did not panic
NoHub == 0                  \* GetHubFromContext(ctx) = nil
CurrentHub == 1             \* sentry.CurrentHub(), the process-wide hub
EmptyID == <<>>             \* sentry.EventID(""), the empty identifier
NilDeref == "errNilDeref"   \* runtime error: nil pointer dereference

\* Pointers to an EventID: new(sentry.EventID) points to "", the SDK may give nil.
NilPtr == [isNil |-> TRUE, val |-> EmptyID]
Ptr(id) == [isNil |-> FALSE, val |-> id]

\* Application errors handed to the reporter, and what package errors says of them.
AppErrors == {"errPlain", "errTagged", "errIgnorable"}
ErrorValues == AppErrors \cup {NilDeref}
Ignore(err) == err = "errIgnorable"
Tags(err) == IF err = "errTagged" THEN {"component=x"} ELSE {}
NilExtras == {}
Extras(err) == IF err = "errTagged" THEN {"stacktrace"} ELSE NilExtras

(***************************************************************************)
(* The SDK state a goroutine works on: w = [stacks, events, trace], the    *)
(* hubs' scope stacks, shared by all goroutines, with the events its call  *)
(* has transmitted and the invocations its call has made so far.           *)
(* A scope is [owner, tags, extras, context]; owner names the goroutine    *)
(* that pushed it (0: the base scope of a hub), standing for the *Scope    *)
(* pointer that PushScope returns to WithScope's closure.                  *)
(***************************************************************************)
BaseScope == [owner |-> 0, tags |-> {}, extras |-> {}, context |-> {}]

World(s, e, t) == [stacks |-> s, events |-> e, trace |-> t]

Top(stack) == stack[Len(stack)]

\* Op applied to the value of v, which is computed once however often Op uses it.
Let(v, Op(_)) == CHOOSE r \in {Op(x) : x \in {v}} : TRUE

\* One entry of the trace: an SDK invocation, a local log line or a panic,
\* with the source line that makes it.
Emit(w, op, hub, val, id, at) ==
    [w EXCEPT !.trace = Append(@, [op |-> op, hub |-> hub, val |-> val, id |-> id, at |-> at])]

\* hub.PushScope(): a clone of the top scope goes on the hub's stack.
PushScope(w, h, tid, at) ==
    Emit([w EXCEPT !.stacks[h] = Append(@, [Top(@) EXCEPT !.owner = tid])],
         "PushScope", h, Nil, EmptyID, at)

\* hub.PopScope(): the top of the hub's stack is dropped (the base scope stays),
\* whoever pushed it.
PopScope(w, h, at) ==
    Emit([w EXCEPT !.stacks[h] = IF Len(@) > 1 THEN SubSeq(@, 1, Len(@) - 1) ELSE @],
         "PopScope", h, Nil, EmptyID, at)

\* The scope goroutine tid pushed on hub h, if it is still on the stack, becomes
\* Set(scope): the closure of WithScope holds a pointer to that scope.
OnScope(w, h, tid, Set(_)) ==
    [w EXCEPT !.stacks[h] = [i \in DOMAIN @ |-> IF @[i].owner = tid THEN Set(@[i]) ELSE @[i]]]

\* scope.SetContext("extras", extras)
SetContext(w, h, tid, err, at) ==
    Emit(OnScope(w, h, tid, LAMBDA sc : [sc EXCEPT !.context = Extras(err)]),
         "SetContext", h, err, EmptyID, at)

\* scope.SetExtras(extras)
SetExtras(w, h, tid, err, at) ==
    Emit(OnScope(w, h, tid, LAMBDA sc : [sc EXCEPT !.extras = @ \cup Extras(err)]),
         "SetExtras", h, err, EmptyID, at)

\* scope.SetTags(errors.Tags(err))
SetTags(w, h, tid, err, at) ==
    Emit(OnScope(w, h, tid, LAMBDA sc : [sc EXCEPT !.tags = @ \cup Tags(err)]),
         "SetTags", h, err, EmptyID, at)

\* A capture call on hub h (CaptureException, RecoverWithContext) by goroutine
\* tid: an event with the data of the scope on top of hub h's stack, and its
\* identifier, fresh for every event; nil when the hub has no client or the
\* event is sampled out.
CaptureOn(w0, h, op, val, sampled, client, tid, at) ==
    Let(w0, LAMBDA w :
        IF client /\ sampled
        THEN LET id == <<tid, Len(w.events) + 1>>
                 sc == Top(w.stacks[h])
                 ev == [hub |-> h, val |-> val, tags |-> sc.tags, extras |-> sc.extras,
                        context |-> sc.context, id |-> id, at |-> at]
             IN [w |-> Emit([w EXCEPT !.events = Append(@, ev)], op, h, val, id, at),
                 ptr |-> Ptr(id)]
        ELSE [w |-> Emit(w, op, h, val, EmptyID, at), ptr |-> NilPtr])

CaptureException(w, h, val, sampled, client, tid, at) ==
    CaptureOn(w, h, "CaptureException", val, sampled, client, tid, at)

RecoverWithContext(w, h, val, sampled, client, tid, at) ==
    CaptureOn(w, h, "RecoverWithContext", val, sampled, client, tid, at)

\* if eventID != nil { log.Errorf(err, "... event ID `%s`", *eventID) }
LogCaptured(c, err, at) ==
    IF ~c.ptr.isNil THEN Emit(c.w, "log.Errorf", NoHub, err, c.ptr.val, at) ELSE c.w

\* How a call ends: it returns ret, or it panics with the value panic.
Return(w, ret) == [w |-> w, returned |-> TRUE, ret |-> ret, panic |-> NoPanic]
Panic(w, val, at) ==
    [w |-> Emit(w, "panic", NoHub, val, EmptyID, at), returned |-> FALSE,
     ret |-> EmptyID, panic |-> val]

\* Mutation: the ignorable check is forgotten.
ShouldReportNoIgnore(wr, err) == wr.client
\* wrapper.client != nil && !errors.Ignore(err)
ShouldReport(wr, err) == wr.client /\ ~Ignore(err)

\* Mutation: the re-raise is forgotten.
CaptureEndNoPanic(r, err, _panic) ==
    IF ~r.eventID.isNil THEN Return(r.w, r.eventID.val) ELSE Return(r.w, EmptyID)
\* The end of Capture: the re-raise, else the identifier behind its nil guard.
CaptureEnd(r, err, _panic) ==
    IF _panic THEN Panic(r.w, err, 107)
    ELSE IF ~r.eventID.isNil THEN Return(r.w, r.eventID.val)
    ELSE Return(r.w, EmptyID)

\* The end of CaptureWithContext: a panic of the fallback call goes through, then
\* the re-raise, else the identifier, dereferenced without a nil guard.
CaptureWithContextEnd(r, err, _panic) ==
    IF r.panic # NoPanic
    THEN [w |-> r.w, returned |-> FALSE, ret |-> EmptyID, panic |-> r.panic]
    ELSE IF _panic THEN Panic(r.w, err, 156)
    ELSE IF r.eventID.isNil THEN Panic(r.w, NilDeref, 160)
    ELSE Return(r.w, r.eventID.val)

(***************************************************************************)
(* The gRPC interceptors.                                                  *)
(***************************************************************************)
\* Errors as the RPC caller sees them: status.Code(err) and err.Error().
ErrorMsg(e) ==
    CASE e = "errPlain" -> "plain failure"
      [] e = "errTagged" -> "tagged failure"
      [] e = "errIgnorable" -> "ignorable failure"
      [] e = NilDeref -> "runtime error: invalid memory address or nil pointer dereference"
      [] OTHER -> ""
NilErr == [name |-> Nil, code |-> "OK", msg |-> ""]
ErrOf(e) == IF e = Nil THEN NilErr ELSE [name |-> e, code |-> "Unknown", msg |-> ErrorMsg(e)]
\* status.Errorf(c, format, a...)
StatusErrorf(code, msg) == [name |-> "status", code |-> code, msg |-> msg]

\* Values a handler may panic with: a string, an error, an int.
StringValues == {"boom"}
IntValues == {"42"}
PanicValues == StringValues \cup IntValues \cup {"errPlain"}
\* fmt.Sprintf("%s", r)
FormatS(r) ==
    IF r \in ErrorValues THEN ErrorMsg(r)
    ELSE IF r = "42" THEN "%!s(int=42)"
    ELSE r

\* sentryWrapper.BuildOptions(sentryWrapper.WithRepanic(false))
Repanic == FALSE
ReportOn(ro, err) == err \in ro

\* hub.Clone(): a new hub h whose only scope is a clone of the top scope of the
\* process-wide hub.
Clone(s, h) == [s EXCEPT ![h] = <<[Top(s[CurrentHub]) EXCEPT !.owner = 0]>>]

\* hub := sentry.GetHubFromContext(ctx); if hub == nil { Clone, SetHubOnContext }
\* own is the hub a clone made by this goroutine becomes.
EnsureHub(w, ctxHub, own, at) ==
    IF ctxHub = NoHub
    THEN [w |-> Emit([w EXCEPT !.stacks = Clone(@, own)], "Clone", own, Nil, EmptyID, at),
          hub |-> own]
    ELSE [w |-> w, hub |-> ctxHub]

\* What a handler does with the context it is given. hb = [capErr, capPanic,
\* resp, err, panic]: it may call CaptureWithContext(ctx, capErr, capPanic),
\* then it returns (resp, err) or panics with hb.panic.
Behaviours ==
    {hb \in [capErr : {Nil, "errTagged"}, capPanic : BOOLEAN, resp : {Nil, "resp"},
             err : {Nil, "errPlain"}, panic : {NoPanic} \cup PanicValues] :
        /\ hb.capErr = Nil => ~hb.capPanic
        /\ hb.capPanic => hb.resp = Nil /\ hb.err = Nil /\ hb.panic = NoPanic
        /\ hb.capErr # Nil => hb.panic \in {NoPanic, "boom"}
        /\ hb.panic # NoPanic => hb.resp = Nil /\ hb.err = Nil
        /\ (hb.panic = NoPanic /\ ~hb.capPanic) => (hb.resp = Nil) = (hb.err # Nil)}

\* o is the outcome of the handler's call to CaptureWithContext, if it made one.
HandlerResult(o, hb, at) ==
    IF o.panic # NoPanic THEN [w |-> o.w, resp |-> Nil, err |-> Nil, panic |-> o.panic]
    ELSE IF hb.panic # NoPanic
    THEN [w |-> Emit(o.w, "panic", NoHub, hb.panic, EmptyID, at), resp |-> Nil,
          err |-> Nil, panic |-> hb.panic]
    ELSE [w |-> o.w, resp |-> hb.resp, err |-> hb.err, panic |-> NoPanic]

\* The deferred function of the unary interceptor, run when the handler panicked
\* with h.panic: err is a named result, so the status error is what is returned.
\* Mutation: the status error is dropped, as for an unnamed result.
UnaryRecoverDropsError(h, hub, wr, sampled, tid) ==
    [w |-> RecoverWithContext(h.w, hub, h.panic, sampled, wr.client, tid, 214).w,
     resp |-> Nil, err |-> NilErr, panic |-> NoPanic]
UnaryRecover(h, hub, wr, sampled, tid) ==
    Let(RecoverWithContext(h.w, hub, h.panic, sampled, wr.client, tid, 214), LAMBDA r :
        IF Repanic
        THEN [w |-> Emit(r.w, "panic", NoHub, h.panic, EmptyID, 217),
              resp |-> Nil, err |-> NilErr, panic |-> h.panic]
        ELSE [w |-> r.w, resp |-> Nil,
              err |-> StatusErrorf("Internal", FormatS(h.panic)), panic |-> NoPanic])

\* The unary interceptor once the handler h has finished: the deferred recovery
\* if it panicked, else the capture ReportOn asks for and the handler's results.
\* Mutation: the error is captured whatever ReportOn says.
UnaryFinishAlwaysReports(h, hub, wr, ro, sampled, tid) ==
    IF h.panic # NoPanic
    THEN UnaryRecover(h, hub, wr, sampled, tid)
    ELSE [w |-> CaptureException(h.w, hub, h.err, sampled, wr.client, tid, 227).w,
          resp |-> h.resp, err |-> ErrOf(h.err), panic |-> NoPanic]
UnaryFinish(h, hub, wr, ro, sampled, tid) ==
    IF h.panic # NoPanic
    THEN UnaryRecover(h, hub, wr, sampled, tid)
    ELSE [w |-> IF ReportOn(ro, h.err)
                THEN CaptureException(h.w, hub, h.err, sampled, wr.client, tid, 227).w
                ELSE h.w,
          resp |-> h.resp, err |-> ErrOf(h.err), panic |-> NoPanic]

\* The deferred function of the stream interceptor: the result is unnamed and
\* the status error is assigned to the blank identifier, so nil is returned.
StreamRecover(h, hub, wr, sampled, tid) ==
    Let(RecoverWithContext(h.w, hub, h.panic, sampled, wr.client, tid, 254), LAMBDA r :
        IF Repanic
        THEN [w |-> Emit(r.w, "panic", NoHub, h.panic, EmptyID, 257),
              resp |-> Nil, err |-> NilErr, panic |-> h.panic]
        ELSE [w |-> r.w, resp |-> Nil, err |-> NilErr, panic |-> NoPanic])

\* The stream interceptor once the handler h has finished.
StreamFinish(h, hub, wr, ro, sampled, tid) ==
    IF h.panic # NoPanic
    THEN StreamRecover(h, hub, wr, sampled, tid)
    ELSE [w |-> IF ReportOn(ro, h.err)
                THEN CaptureException(h.w, hub, h.err, sampled, wr.client, tid, 269).w
                ELSE h.w,
          resp |-> Nil, err |-> ErrOf(h.err), panic |-> NoPanic]

(***************************************************************************)
(* The HTTP decorators. A handler value is the sequence of its layers, the *)
(* application's handler first: <<"hOK">> is the handler hOK itself,       *)
(* <<"hOK", "sentry.HandleFunc">> is hOK wrapped by the SDK adapter.       *)
(***************************************************************************)
Handlers == {"hOK", "hPanic"}
Requests == {"GET /a", "POST /b"}
Writers == {"rw1", "rw2"}
Adapters == {"sentry.HandleFunc", "sentry.HandleHttpRouter"}

\* Mutation: the handler is wrapped without looking at wrapper.handler.
HandleFuncAlwaysWraps(wr, handler) == Append(handler, "sentry.HandleFunc")
\* func (wrapper *Sentry) HandleFunc(handler http.HandlerFunc) http.HandlerFunc
HandleFunc(wr, handler) ==
    IF wr.handler THEN Append(handler, "sentry.HandleFunc") ELSE handler

\* func (wrapper *Sentry) HandleHttpRouter(handler httprouter.Handle) httprouter.Handle
HandleHttpRouter(wr, handler) ==
    IF wr.handler THEN Append(handler, "sentry.HandleHttpRouter") ELSE handler

\* func (wrapper *Sentry) SentryMiddleware(next http.Handler) http.Handler
SentryMiddleware(wr, next) ==
    HandleFunc(wr, Append(next, "func(w, r) { next.ServeHTTP(w, r) }"))

Decorate(wr, deco, handler) ==
    CASE deco = "HandleFunc" -> HandleFunc(wr, handler)
      [] deco = "HandleHttpRouter" -> HandleHttpRouter(wr, handler)
      [] deco = "SentryMiddleware" -> SentryMiddleware(wr, handler)

\* The layers under the SDK adapter, when the handler value has one on top.
Wrapped(handler) == handler # <<>> /\ Top(handler) \in Adapters
Inner(handler) == IF Wrapped(handler) THEN SubSeq(handler, 1, Len(handler) - 1) ELSE handler

\* Serving request req with response writer rw by a handler value without the
\* adapter: what is written to which writer, for which request, and the panic
\* that escapes. The closure of SentryMiddleware calls next.ServeHTTP(w, r).
RECURSIVE ServeHTTP(_, _, _, _)
ServeHTTP(w, handler, rw, req) ==
    IF Len(handler) = 1
    THEN IF handler[1] = "hPanic"
         THEN [w |-> Emit(w, "panic", NoHub, "boom", EmptyID, 191),
               written |-> <<[rw |-> rw, req |-> req, body |-> "partial"]>>, panic |-> "boom"]
         ELSE [w |-> w, written |-> <<[rw |-> rw, req |-> req, body |-> handler[1]]>>,
               panic |-> NoPanic]
    ELSE ServeHTTP(w, SubSeq(handler, 1, Len(handler) - 1), rw, req)

\* The deferred recovery of the SDK adapter, built with Repanic: true.
AdapterRecover(w, hub, val, sampled, wr, tid) ==
    Emit(RecoverWithContext(w, hub, val, sampled, wr.client, tid, 56).w,
         "panic", NoHub, val, EmptyID, 56)

(***************************************************************************)
(* Initialization.                                                         *)
(***************************************************************************)
\* func InitSentry(release string) (client *Sentry): the reporter is enabled
\* only when the DSN is set and sentry.Init succeeds.
InitSentry(dsn, initErr) ==
    IF dsn # ""
    THEN IF initErr
         THEN [client |-> FALSE, handler |-> FALSE]
         ELSE [client |-> TRUE, handler |-> TRUE]
    ELSE [client |-> FALSE, handler |-> FALSE]

\* The policies opts.ReportOn may be: report every error, only non-nil errors,
\* or none.
ReportPolicies == {{Nil, "errPlain"}, {"errPlain"}, {}}

CaptureOps == {"Capture", "CaptureWithContext"}
RPCOps == {"Unary", "Stream"}
DecoratorOps == {"HandleFunc", "HandleHttpRouter", "SentryMiddleware"}

\* A goroutine that has not made its call. op is the entry point called, pc the
\* SDK invocation the goroutine makes next, fn the function whose WithScope is
\* running; err and _panic are the arguments of a reporting call, hb what the
\* handler of an RPC call does; hub is the session in use, eventID the local
\* variable of Capture, h the outcome of the handler.
IdleCall ==
    [pc |-> "idle", op |-> "none", fn |-> "none",
     ctxHub |-> NoHub, err |-> Nil, _panic |-> FALSE,
     hb |-> [capErr |-> Nil, capPanic |-> FALSE, resp |-> "resp", err |-> Nil, panic |-> NoPanic],
     handler |-> <<>>, decorated |-> <<>>, rw |-> "", req |-> "",
     hub |-> NoHub, eventID |-> Ptr(EmptyID),
     h |-> [resp |-> Nil, err |-> Nil, panic |-> NoPanic],
     returned |-> FALSE, ret |-> EmptyID, panic |-> NoPanic, resp |-> Nil, rerr |-> NilErr,
     written |-> <<>>, trace |-> <<>>, events |-> <<>>]

Goroutines == 1..MaxCalls
\* The hub a session of goroutine c is.
SessionOf(c) == c + 1

Init ==
    /\ \E dsn \in {"", "https://key@sentry.example/1"}, initErr \in BOOLEAN :
          /\ env = [dsn |-> dsn, initErr |-> initErr /\ dsn # ""]
          /\ wrapper = InitSentry(dsn, initErr)
    /\ reportOn \in ReportPolicies
    /\ stacks = [h \in 1..(MaxCalls + 1) |-> IF h = CurrentHub THEN <<BaseScope>> ELSE <<>>]
    /\ calls = [c \in Goroutines |-> IdleCall]

(***************************************************************************)
(* The calls, step by step. The operators below give [w, k]: the SDK state *)
(* and the call record k after the goroutine's code up to its next SDK     *)
(* invocation.                                                             *)
(***************************************************************************)
\* The arguments of the reporting call a goroutine is in: its own call of
\* Capture or CaptureWithContext, or the one its RPC handler makes.
ArgErr(k) == IF k.op \in CaptureOps THEN k.err ELSE k.hb.capErr
ArgPanic(k) == IF k.op \in CaptureOps THEN k._panic ELSE k.hb.capPanic

HandlerLine(k) == IF k.op = "Unary" THEN 224 ELSE 266

\* The entry point returns or panics.
Finished(k, o) ==
    [k EXCEPT !.pc = "done", !.returned = o.returned, !.ret = o.ret, !.panic = o.panic]

\* The handler's work is over with the outcome o of its CaptureWithContext call.
HandlerDone(k, o) ==
    Let(HandlerResult(o, k.hb, HandlerLine(k)), LAMBDA h :
        [w |-> h.w,
         k |-> [k EXCEPT !.pc = "finish",
                         !.h = [resp |-> h.resp, err |-> h.err, panic |-> h.panic]]])

\* The reporting call running function k.fn ends with outcome o. The result of
\* the fallback call to Capture (line 148) is dropped.
Leave(k, o) ==
    IF k.op = "Capture" THEN [w |-> o.w, k |-> Finished(k, o)]
    ELSE Let(IF k.fn = "Capture"
             THEN CaptureWithContextEnd([w |-> o.w, eventID |-> Ptr(EmptyID), panic |-> o.panic],
                                        ArgErr(k), ArgPanic(k))
             ELSE o,
             LAMBDA r : IF k.op = "CaptureWithContext"
                        THEN [w |-> r.w, k |-> Finished(k, r)]
                        ELSE HandlerDone(k, r))

\* func (wrapper *Sentry) Capture(err error, _panic bool) sentry.EventID
\* up to sentry.WithScope.
Capture(w, wr, k0) ==
    Let([k0 EXCEPT !.fn = "Capture", !.eventID = Ptr(EmptyID)], LAMBDA k :
        IF ArgErr(k) = Nil THEN Leave(k, Return(w, EmptyID))
        ELSE IF ShouldReport(wr, ArgErr(k)) THEN [w |-> w, k |-> [k EXCEPT !.pc = "push"]]
        ELSE Leave(k, CaptureEnd([w |-> Emit(w, "log.Error", NoHub, ArgErr(k), EmptyID, 103),
                                  eventID |-> k.eventID], ArgErr(k), ArgPanic(k))))

\* func (wrapper *Sentry) CaptureWithContext(c context.Context, err error, _panic bool)
\* up to sentry.WithScope; k0.hub is GetHubFromContext(c).
CaptureWithContext(w, wr, k0) ==
    Let([k0 EXCEPT !.fn = "CaptureWithContext", !.eventID = Ptr(EmptyID)], LAMBDA k :
        IF ArgErr(k) = Nil THEN Leave(k, Return(w, EmptyID))
        ELSE IF ShouldReport(wr, ArgErr(k))
        THEN IF k.hub # NoHub
             THEN [w |-> w, k |-> [k EXCEPT !.pc = "push"]]
             ELSE Capture(w, wr, k)
        ELSE Leave(k, CaptureWithContextEnd(
                 [w |-> Emit(w, "log.Error", NoHub, ArgErr(k), EmptyID, 152),
                  eventID |-> k.eventID, panic |-> NoPanic], ArgErr(k), ArgPanic(k))))

\* The calls that may arrive at goroutine c. A context may carry a session.
Arrivals(c) ==
    {[IdleCall EXCEPT !.op = "Capture", !.err = a.err, !._panic = a._panic] :
        a \in [err : AppErrors \cup {Nil}, _panic : BOOLEAN]}
    \cup
    {[IdleCall EXCEPT !.op = "CaptureWithContext", !.err = a.err, !._panic = a._panic,
                      !.ctxHub = a.ctxHub, !.hub = a.ctxHub] :
        a \in [err : AppErrors \cup {Nil}, _panic : BOOLEAN, ctxHub : {NoHub, SessionOf(c)}]}
    \cup
    {[IdleCall EXCEPT !.op = a.op, !.hb = a.hb, !.ctxHub = a.ctxHub] :
        a \in [op : RPCOps, hb : Behaviours, ctxHub : {NoHub, SessionOf(c)}]}
    \cup
    {[IdleCall EXCEPT !.op = a.op, !.handler = <<a.h>>, !.rw = a.io[1], !.req = a.io[2],
                      !.decorated = Decorate(wrapper, a.op, <<a.h>>)] :
        a \in [op : DecoratorOps, h : Handlers,
               io : {<<"rw1", "GET /a">>, <<"rw2", "POST /b">>}]}

\* The SDK state goroutine c works on.
Shared(c) == World(stacks, calls[c].events, calls[c].trace)

\* Goroutine c goes on from the SDK state w with the call record k.
Step(c, w, k) ==
    /\ stacks' = w.stacks
    /\ calls' = [calls EXCEPT ![c] = [k EXCEPT !.trace = w.trace, !.events = w.events]]
    /\ UNCHANGED <<env, wrapper, reportOn>>

\* A call arrives at goroutine c (goroutines are numbered as their calls
\* arrive). The session its context carries was cloned from the process-wide
\* hub by whoever made the context. A reporting call runs to its first SDK
\* invocation.
Begin(c) ==
    /\ calls[c].pc = "idle"
    /\ c > 1 => calls[c - 1].pc # "idle"
    /\ \E k \in Arrivals(c) :
          \E w \in {IF k.ctxHub # NoHub THEN [Shared(c) EXCEPT !.stacks = Clone(@, k.ctxHub)]
                    ELSE Shared(c)} :
          \E n \in {CASE k.op = "Capture" -> Capture(w, wrapper, k)
                      [] k.op = "CaptureWithContext" -> CaptureWithContext(w, wrapper, k)
                      [] k.op \in RPCOps -> [w |-> w, k |-> [k EXCEPT !.pc = "attach"]]
                      [] k.op \in DecoratorOps ->
                            [w |-> w, k |-> [k EXCEPT !.pc = IF Wrapped(k.decorated)
                                                              THEN "attach" ELSE "handler"]]} :
              Step(c, n.w, n.k)

\* hub := sentry.GetHubFromContext(ctx); if hub == nil { ... }, in an interceptor
\* and in the SDK adapter.
Attach(c) ==
    /\ calls[c].pc = "attach"
    /\ \E e \in {EnsureHub(Shared(c), calls[c].ctxHub, SessionOf(c),
                           CASE calls[c].op = "Unary" -> 208
                             [] calls[c].op = "Stream" -> 248
                             [] OTHER -> 56)} :
          Step(c, e.w, [calls[c] EXCEPT !.pc = "handler", !.hub = e.hub])

\* The handler runs. An RPC handler gets the context carrying calls[c].hub; if it
\* reports, it enters CaptureWithContext. An HTTP handler serves the request;
\* its panic goes to the adapter, if there is one.
Handler(c) ==
    /\ calls[c].pc = "handler"
    /\ IF calls[c].op \in RPCOps
       THEN \E n \in {IF calls[c].hb.capErr = Nil
                      THEN HandlerDone(calls[c], Return(Shared(c), EmptyID))
                      ELSE CaptureWithContext(Shared(c), wrapper, calls[c])} :
                Step(c, n.w, n.k)
       ELSE \E o \in {ServeHTTP(Shared(c), Inner(calls[c].decorated), calls[c].rw, calls[c].req)} :
                IF Wrapped(calls[c].decorated) /\ o.panic # NoPanic
                THEN Step(c, o.w, [calls[c] EXCEPT !.pc = "finish", !.written = o.written,
                                                   !.h.panic = o.panic])
                ELSE Step(c, o.w, [calls[c] EXCEPT !.pc = "done", !.written = o.written,
                                                   !.returned = (o.panic = NoPanic),
                                                   !.panic = o.panic])

\* sentry.WithScope: PushScope on the process-wide hub.
Push(c) ==
    /\ calls[c].pc = "push"
    /\ Step(c, PushScope(Shared(c), CurrentHub, c, IF calls[c].fn = "Capture" THEN 78 ELSE 127),
            [calls[c] EXCEPT !.pc = IF Extras(ArgErr(calls[c])) # NilExtras
                                    THEN "setContext" ELSE "setTags"])

\* scope.SetContext("extras", extras)
ScopeSetContext(c) ==
    /\ calls[c].pc = "setContext"
    /\ Step(c, SetContext(Shared(c), CurrentHub, c, ArgErr(calls[c]),
                          IF calls[c].fn = "Capture" THEN 82 ELSE 130),
            [calls[c] EXCEPT !.pc = "setExtras"])

\* scope.SetExtras(extras)
ScopeSetExtras(c) ==
    /\ calls[c].pc = "setExtras"
    /\ Step(c, SetExtras(Shared(c), CurrentHub, c, ArgErr(calls[c]),
                         IF calls[c].fn = "Capture" THEN 86 ELSE 134),
            [calls[c] EXCEPT !.pc = "setTags"])

\* scope.SetTags(errors.Tags(err)); in CaptureWithContext the closure ends here.
ScopeSetTags(c) ==
    /\ calls[c].pc = "setTags"
    /\ Step(c, SetTags(Shared(c), CurrentHub, c, ArgErr(calls[c]),
                       IF calls[c].fn = "Capture" THEN 90 ELSE 138),
            [calls[c] EXCEPT !.pc = IF calls[c].fn = "Capture" THEN "capture" ELSE "pop"])

\* In Capture: sentry.CaptureException(err) on the process-wide hub and the log
\* line. In CaptureWithContext: hub.CaptureException(err) on the session, the log
\* line, the re-raise or the dereference, and what follows the call.
CaptureStep(c) ==
    /\ calls[c].pc = "capture"
    /\ \E sampled \in BOOLEAN :
          IF calls[c].fn = "Capture"
          THEN \E r \in {CaptureException(Shared(c), CurrentHub, ArgErr(calls[c]), sampled,
                                          wrapper.client, c, 94)} :
                   Step(c, LogCaptured(r, ArgErr(calls[c]), 96),
                        [calls[c] EXCEPT !.pc = "pop", !.eventID = r.ptr])
          ELSE \E r \in {CaptureException(Shared(c), calls[c].hub, ArgErr(calls[c]), sampled,
                                          wrapper.client, c, 142)} :
               \E n \in {Leave(calls[c], CaptureWithContextEnd(
                             [w |-> LogCaptured(r, ArgErr(calls[c]), 144), eventID |-> r.ptr,
                              panic |-> NoPanic], ArgErr(calls[c]), ArgPanic(calls[c])))} :
                   Step(c, n.w, n.k)

\* sentry.WithScope's deferred PopScope. In Capture the re-raise or the return
\* follows, and what follows the call.
Pop(c) ==
    /\ calls[c].pc = "pop"
    /\ IF calls[c].fn = "Capture"
       THEN \E n \in {Leave(calls[c], CaptureEnd([w |-> PopScope(Shared(c), CurrentHub, 100),
                                                  eventID |-> calls[c].eventID],
                                                 ArgErr(calls[c]), ArgPanic(calls[c])))} :
                Step(c, n.w, n.k)
       ELSE Step(c, PopScope(Shared(c), CurrentHub, 139), [calls[c] EXCEPT !.pc = "capture"])

\* After the handler: the deferred recovery or the post-call report of an
\* interceptor, the deferred recovery of the SDK adapter.
FinishCall(c) ==
    /\ calls[c].pc = "finish"
    /\ \E sampled \in BOOLEAN :
          IF calls[c].op \in RPCOps
          THEN \E o \in {LET h == [w |-> Shared(c), resp |-> calls[c].h.resp,
                                   err |-> calls[c].h.err, panic |-> calls[c].h.panic]
                         IN IF calls[c].op = "Unary"
                            THEN UnaryFinish(h, calls[c].hub, wrapper, reportOn, sampled, c)
                            ELSE StreamFinish(h, calls[c].hub, wrapper, reportOn, sampled, c)} :
                   Step(c, o.w, [calls[c] EXCEPT !.pc = "done", !.returned = (o.panic = NoPanic),
                                                 !.panic = o.panic, !.resp = o.resp,
                                                 !.rerr = o.err])
          ELSE Step(c, AdapterRecover(Shared(c), calls[c].hub, calls[c].h.panic, sampled,
                                      wrapper, c),
                    [calls[c] EXCEPT !.pc = "done", !.returned = FALSE,
                                     !.panic = calls[c].h.panic])

Next ==
    \E c \in Goroutines :
        \/ Begin(c)
        \/ Attach(c)
        \/ Handler(c)
        \/ Push(c)
        \/ ScopeSetContext(c)
        \/ ScopeSetExtras(c)
        \/ ScopeSetTags(c)
        \/ CaptureStep(c)
        \/ Pop(c)
        \/ FinishCall(c)

Spec == Init /\ [][Next]_vars

(***************************************************************************)
(* Properties.                                                             *)
(***************************************************************************)
Disabled == env.dsn = "" \/ env.initErr
Done(c) == calls[c].pc = "done"

\* Positions of the trace of call c holding an invocation of one of ops.
At(c, ops) == {i \in DOMAIN calls[c].trace : calls[c].trace[i].op \in ops}
Transmissions(c) == At(c, {"CaptureException", "RecoverWithContext"})
Reports(c) == Transmissions(c) \cup At(c, {"log.Error", "log.Errorf"})
\* A trace without the source lines and identifiers: what was invoked, on which
\* hub, with what, and whether it gave an identifier.
Effects(t) ==
    [i \in DOMAIN t |-> [op |-> t[i].op, hub |-> t[i].hub, val |-> t[i].val,
                         sent |-> t[i].id # EmptyID]]
\* The identifier of the event call c transmitted, if any.
OwnID(c) == IF calls[c].events = <<>> THEN EmptyID ELSE calls[c].events[1].id

\* C1: Capture and CaptureWithContext invoke a capture call (on the process-wide
\* hub or on a session) only if the reporter is enabled and err is non-nil and
\* not ignorable; for an ignorable error, and for any input when the reporter is
\* disabled, nothing is transmitted and the identifier is empty, the call either
\* returning it or re-raising err under _panic.
C1_TransmitOnlyReportable ==
    \A c \in Goroutines : calls[c].op \in CaptureOps =>
        /\ Transmissions(c) # {} =>
              wrapper.client /\ calls[c].err # Nil /\ ~Ignore(calls[c].err)
        /\ (Disabled \/ (calls[c].err # Nil /\ Ignore(calls[c].err))) =>
              /\ Transmissions(c) = {}
              /\ calls[c].events = <<>>
              /\ Done(c) =>
                    /\ calls[c].ret = EmptyID
                    /\ \/ calls[c].returned
                       \/ calls[c]._panic /\ calls[c].panic = calls[c].err

C1_Witness ==
    \E c \in Goroutines :
        /\ Done(c)
        /\ calls[c].op = "CaptureWithContext"
        /\ ~Disabled
        /\ calls[c].ctxHub # NoHub
        /\ calls[c].err = "errIgnorable"
        /\ calls[c].returned
        /\ At(c, {"log.Error"}) # {}

\* C2: Capture(err, true) with a non-nil err panics with exactly err whatever the
\* reporter state, the error and the capture outcome, and the panic comes after
\* the reporting attempt (a capture call or the local log line); Capture(nil, _)
\* does nothing and returns the empty identifier.
C2_CaptureReraises ==
    \A c \in Goroutines : (Done(c) /\ calls[c].op = "Capture") =>
        /\ (calls[c].err # Nil /\ calls[c]._panic) =>
              /\ ~calls[c].returned
              /\ calls[c].panic = calls[c].err
              /\ At(c, {"panic"}) = {Len(calls[c].trace)}
              /\ calls[c].trace[Len(calls[c].trace)].val = calls[c].err
              /\ Reports(c) # {}
              /\ \A i \in Reports(c) : i < Len(calls[c].trace)
        /\ calls[c].err = Nil =>
              /\ calls[c].returned
              /\ calls[c].ret = EmptyID
              /\ calls[c].trace = <<>>
              /\ calls[c].events = <<>>

C2_Witness ==
    \E c \in Goroutines :
        /\ Done(c)
        /\ calls[c].op = "Capture"
        /\ calls[c]._panic
        /\ calls[c].err = "errTagged"
        /\ ~Disabled
        /\ calls[c].panic = "errTagged"
        /\ calls[c].events # <<>>
        /\ \E d \in Goroutines \ {c} : At(d, {"PushScope"}) # {}

\* C3: a panic of the handler inside the unary interceptor is recovered,
\* reported through the call's session and not propagated: the caller gets an
\* error of code Internal whose message is the panic value formatted with %s.
C3_UnaryPanicBecomesInternal ==
    \A c \in Goroutines : (Done(c) /\ calls[c].op = "Unary" /\ At(c, {"panic"}) # {}) =>
        /\ calls[c].returned
        /\ calls[c].panic = NoPanic
        /\ calls[c].resp = Nil
        /\ calls[c].rerr.code = "Internal"
        /\ \E i \in At(c, {"panic"}) :
              /\ calls[c].rerr.msg = FormatS(calls[c].trace[i].val)
              /\ calls[c].trace[i].val \in StringValues =>
                    calls[c].rerr.msg = calls[c].trace[i].val
              /\ calls[c].trace[i].val \in ErrorValues =>
                    calls[c].rerr.msg = ErrorMsg(calls[c].trace[i].val)
              /\ \E j \in At(c, {"RecoverWithContext"}) :
                    /\ j > i
                    /\ calls[c].trace[j].hub = calls[c].hub
                    /\ calls[c].trace[j].val = calls[c].trace[i].val

C3_Witness ==
    \E c \in Goroutines :
        /\ Done(c)
        /\ calls[c].op = "Unary"
        /\ calls[c].hb.panic = "boom"
        /\ calls[c].rerr = StatusErrorf("Internal", "boom")
        /\ At(c, {"RecoverWithContext"}) # {}

\* C4: a panic of the stream handler is recovered, reported through the call's
\* session and handed to the caller as a non-nil error of code Internal carrying
\* the panic value formatted with %s.
C4_StreamPanicBecomesInternal ==
    \A c \in Goroutines : (Done(c) /\ calls[c].op = "Stream" /\ At(c, {"panic"}) # {}) =>
        /\ calls[c].returned
        /\ calls[c].rerr # NilErr
        /\ calls[c].rerr.code = "Internal"
        /\ \E i \in At(c, {"panic"}) : calls[c].rerr.msg = FormatS(calls[c].trace[i].val)

\* C5: with the reporter enabled, a reportable err and a context carrying
\* session H, CaptureWithContext(ctx, err, false) captures on H and not on the
\* process-wide hub, and the event transmitted on H carries err's tags and extras.
C5_SessionEventCarriesTags ==
    \A c \in Goroutines :
        (/\ Done(c)
         /\ calls[c].op = "CaptureWithContext"
         /\ wrapper.client
         /\ calls[c].err # Nil /\ ~Ignore(calls[c].err)
         /\ calls[c].ctxHub # NoHub
         /\ ~calls[c]._panic) =>
            /\ \E i \in At(c, {"CaptureException"}) : calls[c].trace[i].hub = calls[c].ctxHub
            /\ \A i \in At(c, {"CaptureException"}) : calls[c].trace[i].hub = calls[c].ctxHub
            /\ \A i \in DOMAIN calls[c].events :
                  /\ calls[c].events[i].hub = calls[c].ctxHub
                  /\ Tags(calls[c].err) \subseteq calls[c].events[i].tags
                  /\ Extras(calls[c].err) \subseteq calls[c].events[i].extras

\* C6: without a session on the context, CaptureWithContext(ctx, err, _panic)
\* has exactly the outcome of Capture(err, _panic): whenever the two calls were
\* made with the same arguments and the SDK sampled them alike, they made the
\* same SDK invocations and log lines, ended with the same re-raise or return,
\* and each returned the identifier of the event it transmitted.
C6_FallbackEqualsCapture ==
    \A c, d \in Goroutines :
        (/\ Done(c) /\ calls[c].op = "CaptureWithContext" /\ calls[c].ctxHub = NoHub
         /\ Done(d) /\ calls[d].op = "Capture"
         /\ calls[c].err = calls[d].err
         /\ calls[c]._panic = calls[d]._panic
         /\ Len(calls[c].events) = Len(calls[d].events)) =>
            /\ Effects(calls[c].trace) = Effects(calls[d].trace)
            /\ calls[c].panic = calls[d].panic
            /\ calls[c].returned = calls[d].returned
            /\ (calls[c].ret = OwnID(c)) = (calls[d].ret = OwnID(d))

\* C7: with _panic false, Capture and CaptureWithContext return normally for
\* every input, and return the empty identifier whenever no event was
\* transmitted (sampled out included).
C7_NoFailureWithoutPanicFlag ==
    \A c \in Goroutines : (Done(c) /\ calls[c].op \in CaptureOps /\ ~calls[c]._panic) =>
        /\ calls[c].returned
        /\ calls[c].panic = NoPanic
        /\ calls[c].events = <<>> => calls[c].ret = EmptyID

\* C8: with the reporter disabled (DSN empty or sentry.Init failed),
\* HandleFunc(h) and HandleHttpRouter(h) are h itself, SentryMiddleware(next) only
\* calls next with the same writer and request, and serving a request through the
\* decorated handler is indistinguishable from serving it through h, a panic of
\* h included: no session is made and the SDK is not invoked.
C8_DisabledDecoratorsAreIdentity ==
    \A c \in Goroutines : (Disabled /\ calls[c].op \in DecoratorOps) =>
        /\ calls[c].op \in {"HandleFunc", "HandleHttpRouter"} =>
              calls[c].decorated = calls[c].handler
        /\ calls[c].op = "SentryMiddleware" =>
              /\ Len(calls[c].decorated) = 2
              /\ SubSeq(calls[c].decorated, 1, 1) = calls[c].handler
        /\ calls[c].hub = NoHub
        /\ stacks[SessionOf(c)] = <<>>
        /\ Transmissions(c) = {}
        /\ Done(c) =>
              \E o \in {ServeHTTP(World(stacks, <<>>, <<>>), calls[c].handler,
                                  calls[c].rw, calls[c].req)} :
                  /\ calls[c].written = o.written
                  /\ calls[c].panic = o.panic
                  /\ calls[c].returned = (o.panic = NoPanic)
                  /\ calls[c].trace = o.w.trace
                  /\ calls[c].events = <<>>
        /\ \A i \in DOMAIN calls[c].written :
              calls[c].written[i].rw = calls[c].rw /\ calls[c].written[i].req = calls[c].req

C8_Witness ==
    \E c \in Goroutines :
        /\ Done(c)
        /\ calls[c].op = "SentryMiddleware"
        /\ env.initErr
        /\ calls[c].handler = <<"hPanic">>
        /\ calls[c].panic = "boom"
        /\ calls[c].written # <<>>

\* C10: when the handler of a unary call completes without panicking, the
\* interceptor returns its response and error unchanged and captures the error on
\* the call's session exactly when ReportOn(err) holds, once; when the handler
\* panics, the recovered value is reported once and the post-call capture is not
\* made.
PostCallCaptures(c) == {i \in DOMAIN calls[c].trace : calls[c].trace[i].at = 227}

C10_UnaryReportsPerPolicy ==
    \A c \in Goroutines : (Done(c) /\ calls[c].op = "Unary") =>
        /\ At(c, {"panic"}) = {} =>
              /\ calls[c].returned
              /\ calls[c].resp = calls[c].hb.resp
              /\ calls[c].rerr = ErrOf(calls[c].hb.err)
              /\ Cardinality(PostCallCaptures(c)) =
                    IF ReportOn(reportOn, calls[c].hb.err) THEN 1 ELSE 0
              /\ \A i \in PostCallCaptures(c) :
                    /\ calls[c].trace[i].op = "CaptureException"
                    /\ calls[c].trace[i].hub = calls[c].hub
                    /\ calls[c].trace[i].val = calls[c].hb.err
              /\ At(c, {"RecoverWithContext"}) = {}
        /\ At(c, {"panic"}) # {} =>
              /\ Cardinality(At(c, {"RecoverWithContext"})) = 1
              /\ \A j \in At(c, {"RecoverWithContext"}) :
                    /\ calls[c].trace[j].hub = calls[c].hub
                    /\ \E i \in At(c, {"panic"}) :
                          i < j /\ calls[c].trace[i].val = calls[c].trace[j].val
              /\ PostCallCaptures(c) = {}

C10_Witness ==
    \E c \in Goroutines :
        /\ Done(c)
        /\ calls[c].op = "Unary"
        /\ calls[c].hb.err = "errPlain"
        /\ calls[c].hb.capErr = "errTagged"
        /\ ReportOn(reportOn, "errPlain")
        /\ Cardinality(PostCallCaptures(c)) = 1
        /\ Cardinality(At(c, {"CaptureException"})) = 2

ScopeOps == {"PushScope", "PopScope", "SetContext", "SetExtras", "SetTags"}
SessionOps == ScopeOps \cup {"CaptureException", "RecoverWithContext", "Clone"}
HasSession(c) == calls[c].op \in RPCOps /\ calls[c].pc \notin {"idle", "attach"}

\* C9: under every interleaving, an RPC call without a session on its context
\* gets a fresh one, distinct from the other calls' and from the process-wide
\* hub, a call with a session reuses it without cloning, and every scope
\* mutation and every event made for a call touches that call's session only: no
\* other call's, and not the process-wide hub, whose scopes the calls share.
C9_SessionsIsolated ==
    \A c \in Goroutines : HasSession(c) =>
        /\ calls[c].hub \notin {NoHub, CurrentHub}
        /\ \A d \in Goroutines \ {c} : HasSession(d) => calls[d].hub # calls[c].hub
        /\ IF calls[c].ctxHub = NoHub
           THEN \E i \in DOMAIN calls[c].trace :
                    calls[c].trace[i].op = "Clone" /\ calls[c].trace[i].hub = calls[c].hub
           ELSE /\ calls[c].hub = calls[c].ctxHub
                /\ \A i \in DOMAIN calls[c].trace : calls[c].trace[i].op # "Clone"
        /\ \A i \in DOMAIN calls[c].trace :
              calls[c].trace[i].op \in SessionOps => calls[c].trace[i].hub = calls[c].hub
        /\ \A i \in DOMAIN calls[c].events :
              /\ calls[c].events[i].hub = calls[c].hub
              /\ calls[c].events[i].tags \subseteq Tags(calls[c].hb.capErr)
====
